---- MODULE Spec2Model ----
(***************************************************************************)
(* Model of new-music-checker (src/main.py): repeated runs of main()       *)
(* against a nondeterministic upstream (followed-artist listing, artist    *)
(* album queries, webhook responses) and the persisted releases.json.      *)
(* Strings that the program orders (release dates) are sequences of        *)
(* character codes; all other strings are opaque.                          *)
(***************************************************************************)
EXTENDS Integers, Sequences, FiniteSets, TLC

\* ------------------------------------------------------------------ bounds
MaxPages == 2         \* pages of the followed-artist listing
MaxCandidates == 2    \* items returned by the upstream in one scan
MaxList == 3          \* length of the list handed to push_message_to_discord

\* --------------------------------------------------------------- constants
MAX_RETRIES == 5
LIMIT == 5            \* artist_albums(limit=5)
None == "None"
WEBHOOK == "https://discord/webhook"
Groups == <<"album", "single", "appears_on", "compilation">>
Statuses == {204, 400}

\* ----------------------------------------------------------------- strings
Dash == 45
Digit(n) == 48 + n
Min(a, b) == IF a < b THEN a ELSE b

\* Python's str "<": code-point lexicographic, a proper prefix is smaller.
StrLess(s, t) ==
    \/ /\ Len(s) < Len(t)
       /\ \A i \in 1..Len(s) : s[i] = t[i]
    \/ \E i \in 1..Min(Len(s), Len(t)) :
          /\ s[i] < t[i]
          /\ \A j \in 1..(i - 1) : s[j] = t[j]

\* Python's str ">=".
StrGE(s, t) == ~StrLess(s, t)

Pad2(n) == <<Digit(n \div 10), Digit(n % 10)>>
Pad4(n) == <<Digit(n \div 1000), Digit((n \div 100) % 10),
             Digit((n \div 10) % 10), Digit(n % 10)>>

\* strftime("%Y-%m-%d") of a date <<y, m, d>>.
Strftime(d) == Pad4(d[1]) \o <<Dash>> \o Pad2(d[2]) \o <<Dash>> \o Pad2(d[3])

IsLeap(y) == (y % 4 = 0 /\ y % 100 # 0) \/ y % 400 = 0
DaysInMonth(y, m) ==
    IF m = 2 THEN (IF IsLeap(y) THEN 29 ELSE 28)
    ELSE IF m \in {4, 6, 9, 11} THEN 30 ELSE 31

\* now - timedelta(days=1), on the calendar date.
MinusOneDay(d) ==
    IF d[3] > 1 THEN <<d[1], d[2], d[3] - 1>>
    ELSE IF d[2] > 1 THEN <<d[1], d[2] - 1, DaysInMonth(d[1], d[2] - 1)>>
    ELSE <<d[1] - 1, 12, 31>>

\* the cutoff string computed by the scanner
Yesterday(now) == Strftime(MinusOneDay(now))

\* ---------------------------------------------------------------- upstream
\* dates the clock can show when a scan starts
Nows == {<<2026, 11, 1>>, <<2026, 11, 2>>}

\* artist objects as the followed-artist endpoint returns them
ArtistData(k) ==
    [id |-> k, name |-> k + 100, external_urls |-> [spotify |-> k + 200]]

SeqsUpTo(S, n) == UNION {[1..k -> S] : k \in 0..n}

RECURSIVE Flatten(_)
Flatten(ss) == IF ss = <<>> THEN <<>> ELSE Head(ss) \o Flatten(Tail(ss))

\* the artists the account can follow, in the upstream's order
FollowedArtists == <<ArtistData(1), ArtistData(2)>>

\* a page holds a run of consecutive artists, possibly none
Pages ==
    {SubSeq(FollowedArtists, a, b) :
        a \in 1..(Len(FollowedArtists) + 1), b \in 0..Len(FollowedArtists)}

\* listings: one to MaxPages pages that together hold the first artists
Listings ==
    {l \in SeqsUpTo(Pages, MaxPages) :
        /\ Len(l) >= 1
        /\ \E n \in 0..Len(FollowedArtists) :
              Flatten(l) = SubSeq(FollowedArtists, 1, n)}

\* album objects as artist_albums returns them; release_date is a string of
\* day, month or year precision
AlbumData(id, date, type) ==
    [id |-> id, external_urls |-> [spotify |-> id + 300],
     release_date |-> date, album_type |-> type]

Catalog ==
    {AlbumData(1, Strftime(<<2026, 11, 1>>), "album"),
     AlbumData(2, Pad4(2026) \o <<Dash>> \o Pad2(11), "single"),
     AlbumData(3, Strftime(<<2026, 10, 30>>), "album")}

\* ----------------------------------------------------------- data classes
Artist(id, name, spotify_url) ==
    [id |-> id, name |-> name, spotify_url |-> spotify_url]

Release(id, artist_name, spotify_url, release_date, release_type) ==
    [id |-> id, artist_name |-> artist_name, spotify_url |-> spotify_url,
     release_date |-> release_date, release_type |-> release_type]

create_artist_from_data(artist_data) ==
    Artist(artist_data.id, artist_data.name, artist_data.external_urls.spotify)

create_release_from_data(release_data, artist_name) ==
    Release(release_data.id, artist_name, release_data.external_urls.spotify,
            release_data.release_date, release_data.album_type)

MapSeq(s, F(_)) == [k \in 1..Len(s) |-> F(s[k])]

\* ------------------------------------------------------- seen-release store
\* releases.json: absent, or a JSON array of objects
NoFile == [exists |-> FALSE, data |-> <<>>]

\* the JSON object save_releases_to_file writes for one release
ToRecord(release) ==
    [id |-> release.id, artist_name |-> release.artist_name,
     spotify_url |-> release.spotify_url,
     release_date |-> release.release_date,
     release_type |-> release.release_type]

\* the Release load_releases_from_file builds from one JSON object
FromRecord(record) ==
    Release(record.id, record.artist_name, record.spotify_url,
            record.release_date, record.release_type)

save_releases_to_file(releases) ==
    [exists |-> TRUE, data |-> MapSeq(releases, ToRecord)]

load_releases_from_file(f) ==
    IF ~f.exists THEN <<>> ELSE MapSeq(f.data, FromRecord)

\* variant: the new releases are put in front of the record
AppendReleases_prepend(record, releases) == releases \o record

\* the list add_new_releases_to_file saves
AppendReleases(record, releases) == record \o releases

add_new_releases_to_file(f, releases) ==
    save_releases_to_file(AppendReleases(load_releases_from_file(f), releases))

\* variant: a record matches only when id and artist name both match
contains_release_content(releases_record, release) ==
    \E k \in 1..Len(releases_record) :
        /\ releases_record[k].id = release.id
        /\ releases_record[k].artist_name = release.artist_name

contains_release(releases_record, release) ==
    \E k \in 1..Len(releases_record) : releases_record[k].id = release.id

check_if_new_release(releases_record, release) ==
    ~contains_release(releases_record, release)

\* main's filter loop over the scanned releases
FilterNew(releases_record, spotify_releases) ==
    SelectSeq(spotify_releases,
              LAMBDA r : check_if_new_release(releases_record, r))

\* the scanner's recency test on one album
IsRecent(album, yesterday) == StrGE(album.release_date, yesterday)

\* the scanner's per-artist filter loop
RecentReleases(items, artist_name, yesterday) ==
    MapSeq(SelectSeq(items, LAMBDA a : IsRecent(a, yesterday)),
           LAMBDA a : create_release_from_data(a, artist_name))

\* variant: only a missing variable counts, an empty one does not
WebhookUnset_none(url) == url = None

\* send_message_to_discord's "not webhook_url"
WebhookUnset(url) == url = None \/ url = ""

\* variant: a non-204 response ends the loop
NextIndex_break(i, n, status) == IF status = 204 THEN i + 1 ELSE n + 1

\* index of the release the notifier's loop handles after a response
NextIndex(i, n, status) == i + 1

Ids(releases) == {releases[k].id : k \in 1..Len(releases)}


\* ------------------------------------------------------------------- state
VARIABLES
    pc,                \* position of the run
    file,              \* releases.json
    caller,            \* who called get_following_artists: "main" or "scan"
    listing,           \* the upstream's followed-artist pages for this fetch
    results,           \* index of the page held in `results` (0: none)
    all_artists,
    next_page,         \* results["artists"]["next"] is set
    retry_count,
    artists,           \* the scanner's artist list
    yesterday,         \* the scanner's cutoff string
    ai, gi,            \* the scanner's position: artist and group index
    latest_releases,   \* latest_releases["items"]
    scan_new_releases, \* the scanner's new_releases
    spotify_releases,
    releases_record,
    new_releases,      \* main's new_releases, the notifier's `releases`
    webhook_url,
    i,                 \* index of the release the notifier handles next
    error,             \* the exception that ended the run and its origin
    \* history, not read by the program
    fetched,           \* <<artist name, album>> of all items answered in this scan
    queried,           \* artist_albums calls made in this scan
    posts,             \* webhook POSTs answered in this run, in order
    posted,            \* ids of the POSTs answered in earlier runs
    notified,          \* send_message_to_discord was called in this run
    written            \* releases.json was written in this run

vars == <<pc, file, caller, listing, results, all_artists, next_page,
          retry_count, artists, yesterday, ai, gi, latest_releases,
          scan_new_releases, spotify_releases, releases_record, new_releases,
          webhook_url, i, error, fetched, queried, posts, posted,
          notified, written>>

fetchVars == <<listing, results, all_artists, next_page, retry_count>>
scanVars == <<artists, yesterday, ai, gi, latest_releases, scan_new_releases,
              fetched, queried>>
mainVars == <<spotify_releases, releases_record, new_releases>>
pushVars == <<webhook_url, i, posts, posted, notified>>

\* a releases.json left by earlier runs: one release, followed artist 1
SeedFile ==
    save_releases_to_file(
        <<create_release_from_data(
             CHOOSE a \in Catalog : a.id = 1, ArtistData(1).name)>>)

InitFiles == {NoFile, SeedFile}

NoError == [type |-> None, raised_in |-> None]

Locals ==
    /\ caller = "main"
    /\ listing = <<>>
    /\ results = 0
    /\ all_artists = <<>>
    /\ next_page = FALSE
    /\ retry_count = 0
    /\ artists = <<>>
    /\ yesterday = <<>>
    /\ ai = 0
    /\ gi = 0
    /\ latest_releases = <<>>
    /\ scan_new_releases = <<>>
    /\ spotify_releases = <<>>
    /\ releases_record = <<>>
    /\ error = NoError
    /\ fetched = <<>>
    /\ queried = 0
    /\ posts = <<>>
    /\ written = FALSE

Init ==
    /\ pc = "idle"
    /\ file \in InitFiles
    /\ Locals
    /\ new_releases = <<>>
    /\ webhook_url = None
    /\ i = 0
    /\ notified = FALSE
    /\ posted = {}

\* ----------------------------------------------------------------- main()
\* __main__ / main: a run starts, get_spotify_client, get_following_artists
StartRun ==
    /\ pc \in {"idle", "returned", "returned_no_artists",
               "returned_no_recent", "raised"}
    /\ posted' = posted \cup {posts[k].id : k \in 1..Len(posts)}
    /\ pc' = "first_page"
    /\ caller' = "main"
    /\ listing' = <<>> /\ results' = 0 /\ all_artists' = <<>>
    /\ next_page' = FALSE /\ retry_count' = 0
    /\ artists' = <<>> /\ yesterday' = <<>> /\ ai' = 0 /\ gi' = 0
    /\ latest_releases' = <<>> /\ scan_new_releases' = <<>>
    /\ fetched' = <<>> /\ queried' = 0
    /\ spotify_releases' = <<>> /\ releases_record' = <<>>
    /\ new_releases' = <<>>
    /\ webhook_url' = None /\ i' = 0 /\ posts' = <<>> /\ notified' = FALSE
    /\ error' = NoError /\ written' = FALSE
    /\ UNCHANGED file

\* -------------------------------------------- fetch_all_followed_artists
\* the first request, outside the try block
FirstPage ==
    /\ pc = "first_page"
    /\ \E l \in Listings :
          /\ listing' = l
          /\ results' = 1
          /\ all_artists' = l[1]
          /\ next_page' = (Len(l) > 1)
    /\ retry_count' = 0
    /\ pc' = "paginate"
    /\ UNCHANGED <<file, caller, scanVars, mainVars, pushVars, error, written>>

\* the first request raises ConnectionError: nothing catches it
FirstPageFails ==
    /\ pc = "first_page"
    /\ pc' = "raised"
    /\ error' = [type |-> "ConnectionError",
                 raised_in |-> "fetch_all_followed_artists"]
    /\ UNCHANGED <<file, caller, fetchVars, scanVars, mainVars, pushVars, written>>

LoopGuard == retry_count < MAX_RETRIES /\ next_page

\* sp.next succeeds
NextPage ==
    /\ pc = "paginate"
    /\ LoopGuard
    /\ results' = results + 1
    /\ next_page' = (Len(listing) > results + 1)
    /\ all_artists' = all_artists \o listing[results + 1]
    /\ UNCHANGED <<pc, file, caller, listing, retry_count, scanVars,
                   mainVars, pushVars, error, written>>

\* sp.next raises ConnectionError
NextPageFails ==
    /\ pc = "paginate"
    /\ LoopGuard
    /\ retry_count' = retry_count + 1
    /\ pc' = IF retry_count + 1 >= MAX_RETRIES THEN "fetch_return"
                                                ELSE "paginate"
    /\ UNCHANGED <<file, caller, listing, results, all_artists, next_page,
                   scanVars, mainVars, pushVars, error, written>>

\* the while condition is false
PaginateExit ==
    /\ pc = "paginate"
    /\ ~LoopGuard
    /\ pc' = "fetch_return"
    /\ UNCHANGED <<file, caller, fetchVars, scanVars, mainVars, pushVars,
                   error, written>>

\* main after get_following_artists: return, or call the scanner
MainAfterArtists ==
    /\ pc = "fetch_return"
    /\ caller = "main"
    /\ IF MapSeq(all_artists, create_artist_from_data) = <<>>
          THEN pc' = "returned_no_artists" /\ caller' = caller
          ELSE pc' = "first_page" /\ caller' = "scan"
    /\ listing' = <<>> /\ results' = 0 /\ all_artists' = <<>>
    /\ next_page' = FALSE /\ retry_count' = 0
    /\ UNCHANGED <<file, scanVars, mainVars, pushVars, error, written>>

\* ------------------------------------ get_following_artists_new_releases
\* the scanner after its own get_following_artists; with no artist it
\* returns [] and main returns
ScanStart ==
    /\ pc = "fetch_return"
    /\ caller = "scan"
    /\ artists' = MapSeq(all_artists, create_artist_from_data)
    /\ IF artists' = <<>>
          THEN /\ pc' = "returned_no_recent"
               /\ UNCHANGED <<yesterday, ai, gi>>
          ELSE /\ pc' = "scan"
               /\ \E now \in Nows : yesterday' = Yesterday(now)
               /\ ai' = 1
               /\ gi' = 1
    /\ listing' = <<>> /\ results' = 0 /\ all_artists' = <<>>
    /\ next_page' = FALSE /\ retry_count' = 0
    /\ UNCHANGED <<file, caller, latest_releases, scan_new_releases,
                   fetched, queried, mainVars, pushVars, error, written>>

\* the end of one iteration of the group loop; after the last group the
\* artist's items are filtered and the artist loop moves on
ScanAdvance(items) ==
    /\ queried' = queried + 1
    /\ IF gi < Len(Groups)
          THEN /\ gi' = gi + 1
               /\ latest_releases' = items
               /\ UNCHANGED <<ai, scan_new_releases, pc>>
          ELSE /\ gi' = 1
               /\ ai' = ai + 1
               /\ latest_releases' = <<>>
               /\ scan_new_releases' =
                     scan_new_releases \o
                     RecentReleases(items, artists[ai].name, yesterday)
               /\ pc' = IF ai < Len(artists) THEN "scan" ELSE "scan_return"

\* sp.artist_albums answers
ArtistAlbums ==
    /\ pc = "scan"
    /\ \E items \in SeqsUpTo(Catalog,
                             Min(LIMIT, MaxCandidates - Len(fetched))) :
          /\ fetched' = fetched \o
                MapSeq(items, LAMBDA a : <<artists[ai].name, a>>)
          /\ ScanAdvance(latest_releases \o items)
    /\ UNCHANGED <<file, caller, fetchVars, artists, yesterday, mainVars,
                   pushVars, error, written>>

\* sp.artist_albums raises ConnectionError or ReadTimeout: continue
ArtistAlbumsFails ==
    /\ pc = "scan"
    /\ \E e \in {"ConnectionError", "ReadTimeout"} :
          ScanAdvance(latest_releases)
    /\ UNCHANGED <<file, caller, fetchVars, artists, yesterday, fetched,
                   mainVars, pushVars, error, written>>

\* the scanner returns and its locals go; main returns, or loads the record
\* and filters
ScanReturn ==
    /\ pc = "scan_return"
    /\ spotify_releases' = scan_new_releases
    /\ IF scan_new_releases = <<>>
          THEN /\ pc' = "returned_no_recent"
               /\ UNCHANGED <<releases_record, new_releases>>
          ELSE /\ releases_record' = load_releases_from_file(file)
               /\ new_releases' =
                     FilterNew(load_releases_from_file(file), scan_new_releases)
               /\ pc' = "notify"
    /\ artists' = <<>> /\ yesterday' = <<>> /\ ai' = 0 /\ gi' = 0
    /\ latest_releases' = <<>> /\ scan_new_releases' = <<>>
    /\ fetched' = <<>> /\ queried' = 0
    /\ UNCHANGED <<file, caller, fetchVars, pushVars, error, written>>

\* ------------------------------------------------ send_message_to_discord
Notify ==
    /\ pc = "notify"
    /\ notified' = TRUE
    /\ \E url \in {None, "", WEBHOOK} :
          /\ webhook_url' = url
          /\ IF WebhookUnset(url)
                THEN pc' = "pushed" /\ i' = i
                ELSE pc' = "push" /\ i' = 1
    /\ UNCHANGED <<file, caller, fetchVars, scanVars, mainVars, posts,
                   posted, error, written>>

\* ------------------------------------------------ push_message_to_discord
\* requests.post answers with some status
Post ==
    /\ pc = "push"
    /\ i <= Len(new_releases)
    /\ \E status \in Statuses :
          /\ posts' = Append(posts, [id |-> new_releases[i].id,
                                     status |-> status])
          /\ i' = NextIndex(i, Len(new_releases), status)
    /\ posted' = posted
    /\ UNCHANGED <<pc, file, caller, fetchVars, scanVars, mainVars,
                   webhook_url, notified, error, written>>

\* requests.post raises: nothing catches it
PostFails ==
    /\ pc = "push"
    /\ i <= Len(new_releases)
    /\ pc' = "raised"
    /\ error' = [type |-> "ConnectionError",
                 raised_in |-> "push_message_to_discord"]
    /\ UNCHANGED <<file, caller, fetchVars, scanVars, mainVars, pushVars, written>>

\* the for loop is exhausted
PushExit ==
    /\ pc = "push"
    /\ i > Len(new_releases)
    /\ pc' = "pushed"
    /\ UNCHANGED <<file, caller, fetchVars, scanVars, mainVars, pushVars,
                   error, written>>

\* main's last line: add_new_releases_to_file(new_releases)
Persist ==
    /\ pc = "pushed"
    /\ file' = add_new_releases_to_file(file, new_releases)
    /\ written' = TRUE
    /\ pc' = "returned"
    /\ UNCHANGED <<caller, fetchVars, scanVars, mainVars, pushVars, error>>

Next ==
    \/ StartRun
    \/ FirstPage
    \/ FirstPageFails
    \/ NextPage
    \/ NextPageFails
    \/ PaginateExit
    \/ MainAfterArtists
    \/ ScanStart
    \/ ArtistAlbums
    \/ ArtistAlbumsFails
    \/ ScanReturn
    \/ Notify
    \/ Post
    \/ PostFails
    \/ PushExit
    \/ Persist

Spec == Init /\ [][Next]_vars

\* ---------------------------------- push_message_to_discord on its own
\* the lists the notifier is called with
PushReleases ==
    {create_release_from_data(a, ArtistData(1).name) : a \in Catalog}

InitPush ==
    /\ pc = "push"
    /\ file = NoFile
    /\ Locals
    /\ new_releases \in SeqsUpTo(PushReleases, MaxList)
    /\ webhook_url = WEBHOOK
    /\ i = 1
    /\ notified = TRUE
    /\ posted = {}

NextPush ==
    \/ Post
    \/ PostFails
    \/ PushExit

SpecPush == InitPush /\ [][NextPush]_vars


\* ======================================================== properties
Range(q) == {q[k] : k \in 1..Len(q)}
Returned == {"returned", "returned_no_artists", "returned_no_recent"}

\* the calendar date a release_date string denotes; a month or a year
\* stands for its first day
Num(s, a, b) ==
    IF b = a + 1 THEN (s[a] - 48) * 10 + (s[b] - 48)
    ELSE (s[a] - 48) * 1000 + (s[a + 1] - 48) * 100
         + (s[a + 2] - 48) * 10 + (s[b] - 48)
DateOf(s) ==
    <<Num(s, 1, 4),
      IF Len(s) >= 7 THEN Num(s, 6, 7) ELSE 1,
      IF Len(s) >= 10 THEN Num(s, 9, 10) ELSE 1>>
DateGE(d, e) ==
    \/ d[1] > e[1]
    \/ d[1] = e[1] /\ d[2] > e[2]
    \/ d[1] = e[1] /\ d[2] = e[2] /\ d[3] >= e[3]
OnOrAfterCutoff(album, cutoff) ==
    DateGE(DateOf(album.release_date), DateOf(cutoff))

\* C1: after completed runs, starting from an absent or duplicate-free
\* releases.json, no release id occurs twice in the persisted record.
C1_NoDuplicateIds ==
    \A j, k \in 1..Len(file.data) :
        j # k => file.data[j].id # file.data[k].id

\* C2: over any sequence of runs, at most one webhook POST is issued per
\* release id.
C2_AtMostOnePostPerId ==
    /\ \A j, k \in 1..Len(posts) : j # k => posts[j].id # posts[k].id
    /\ \A k \in 1..Len(posts) : posts[k].id \notin posted

\* C3: a run that completes leaves the previous record unchanged and in
\* order, followed by the candidates whose id was absent from it: the length
\* grows by exactly their number N, all their ids are present, and on a cold
\* start with one candidate that release is the sole entry.
C3_AppendsExactlyNew ==
    [][(pc' \in Returned /\ pc \notin Returned) =>
        LET old == load_releases_from_file(file)
            new == load_releases_from_file(file')
            cand == spotify_releases'
            fresh == {k \in 1..Len(cand) : cand[k].id \notin Ids(old)}
            N == Cardinality(fresh)
        IN  /\ Len(new) = Len(old) + N
            /\ SubSeq(new, 1, Len(old)) = old
            /\ SubSeq(new, Len(old) + 1, Len(new)) =
                  SelectSeq(cand, LAMBDA r : r.id \notin Ids(old))
            /\ \A k \in fresh : cand[k].id \in Ids(new)
            /\ (~file.exists /\ Len(cand) = 1) => new = cand
            /\ N > 0 => file'.exists]_vars

C3_Witness ==
    /\ pc = "returned"
    /\ releases_record # <<>>
    /\ new_releases # <<>>
    /\ Len(new_releases) < Len(spotify_releases)
    /\ load_releases_from_file(file) = releases_record \o new_releases

\* C4: a connection failure on any page request of the listing, the first
\* included, never makes fetch_all_followed_artists raise: it returns, either
\* with every page or after 5 failed attempts, the items of the fetched pages
\* once each and in page order.
C4_FetchNeverRaises ==
    /\ ~(pc = "raised"
         /\ error.type = "ConnectionError"
         /\ error.raised_in = "fetch_all_followed_artists")
    /\ pc = "fetch_return" =>
          /\ all_artists = Flatten(SubSeq(listing, 1, results))
          /\ results = Len(listing) \/ retry_count = MAX_RETRIES

\* C5: an error on one (artist, category) query drops only that pair: all
\* pairs are queried and the result is, in artist, category and upstream
\* order, every answered release dated on or after the cutoff.
C5_ScanKeepsAllRecent ==
    pc = "scan_return" =>
        /\ queried = Len(Groups) * Len(artists)
        /\ scan_new_releases =
              MapSeq(SelectSeq(fetched,
                               LAMBDA f : OnOrAfterCutoff(f[2], yesterday)),
                     LAMBDA f : create_release_from_data(f[2], f[1]))

\* the same with the recency test the scanner applies
ScanSkipsOnlyFailedPairs ==
    pc = "scan_return" =>
        /\ queried = Len(Groups) * Len(artists)
        /\ scan_new_releases =
              MapSeq(SelectSeq(fetched, LAMBDA f : IsRecent(f[2], yesterday)),
                     LAMBDA f : create_release_from_data(f[2], f[1]))

\* C6: push_message_to_discord issues exactly one POST per release of its
\* list, in list order, whatever the statuses of the responses.
C6_OnePostPerRelease ==
    /\ pc = "push" => Len(posts) = i - 1
    /\ pc \in {"push", "pushed"} =>
          /\ Len(posts) <= Len(new_releases)
          /\ \A k \in 1..Len(posts) : posts[k].id = new_releases[k].id
    /\ pc = "pushed" => Len(posts) = Len(new_releases)

C6_Witness ==
    /\ pc = "pushed"
    /\ Len(new_releases) = 3
    /\ Len(posts) = 3
    /\ posts[1].status = 204
    /\ posts[2].status # 204
    /\ posts[3].status = 204

\* C7: when every candidate is already in the seen-store, the notify step is
\* not invoked and releases.json is not written.
C7_ShortCircuitWhenAllSeen ==
    (spotify_releases # <<>> /\ new_releases = <<>>) =>
        (~notified /\ ~written)

\* C8: with DISCORD_WEBHOOK_URL unset or empty the run issues no webhook
\* POST, the notify step raises nothing, and the run goes on to its end with
\* the record loaded and filtered as usual.
C8_NoPostWithoutWebhook ==
    (notified /\ webhook_url \in {None, ""}) =>
        /\ posts = <<>>
        /\ pc \in {"pushed", "returned"}
        /\ error = NoError
        /\ new_releases = FilterNew(releases_record, spotify_releases)
        /\ pc = "pushed" => releases_record = load_releases_from_file(file)

C8_Witness ==
    /\ pc = "returned"
    /\ webhook_url = ""
    /\ new_releases # <<>>
    /\ posts = <<>>

\* C9: the scanner keeps an answered release exactly when its release date
\* is on or after the cutoff date, for day, month and year precision dates.
C9_RecencyByDate ==
    pc = "scan_return" =>
        \A k \in 1..Len(fetched) :
            create_release_from_data(fetched[k][2], fetched[k][1])
                \in Range(scan_new_releases)
            <=> OnOrAfterCutoff(fetched[k][2], yesterday)

\* C10: a run that completes appends every unseen release, delivered or not,
\* and no run issues a POST for an id that the seen-store held when it
\* started.
C10_FailedNeverRetried ==
    /\ pc = "returned" =>
          Ids(new_releases) \subseteq Ids(load_releases_from_file(file))
    /\ pc # "returned" =>
          \A k \in 1..Len(posts) :
              posts[k].id \notin Ids(load_releases_from_file(file))

C10_Witness ==
    /\ pc = "returned"
    /\ Ids(spotify_releases) \cap Ids(releases_record) # {}
    /\ \E k \in 1..Len(posts) :
          /\ posts[k].status # 204
          /\ posts[k].id \in Ids(load_releases_from_file(file))

TypeOK ==
    /\ pc \in {"idle", "first_page", "paginate", "fetch_return", "scan",
               "scan_return", "notify", "push", "pushed", "returned",
               "returned_no_artists", "returned_no_recent", "raised"}
    /\ retry_count \in 0..MAX_RETRIES

====
